---- MODULE Spec2Model ----
(***************************************************************************)
(* Binary search tree visualisation: the TreeNode class (types/TreeNode.ts)*)
(* and the TreeVisualization React component that animates insert, search *)
(* and the three traversals over it (components/TreeVisualization.tsx).    *)
(*                                                                         *)
(* Five specifications share this module:                                  *)
(*   SpecEngine   drives the TreeNode methods alone, from every root key   *)
(*                and through every sequence of calls within the bounds;   *)
(*   SpecLayout   grows a tree by insert and calls calculatePositions on   *)
(*                it with several arguments;                               *)
(*   Spec         is the component: React state, the closures each render  *)
(*                hands to its handlers, the async handlers suspended on   *)
(*                their sleep timers, and the heap of TreeNode objects     *)
(*                they share by reference;                                 *)
(*   SpecFair     is Spec with every started timer firing;                 *)
(*   SpecHandlers is Spec with handleSearch and handleTraversal also       *)
(*                called while their buttons are disabled.                 *)
(***************************************************************************)
EXTENDS Integers, Sequences, FiniteSets, TLC

(***************************************************************************)
(* Bounds of the model.                                                    *)
(***************************************************************************)
\* keys used by SpecEngine are 20, 30, ..., 10 * MaxKey
MaxKey == 8
\* async handler invocations that may be suspended on a sleep at the same time
MaxProcs == 2
\* quick-add timers (setTimeout 100) that may be pending at the same time
MaxTimers == 2
\* user events (typing, key presses, clicks, window resizes) in one behaviour
MaxEvents == 4

VARIABLES
  root,        \* SpecEngine: the TreeNode object the calls are made on
  passed,      \* SpecEngine: the root key and every key passed to insert
  lastOp,      \* SpecEngine: the last call, its argument and what it returned
  tree,          \* useState tree: a reference into heap, NoRef when null
  inputValue,    \* useState inputValue: the string in the input field
  isAnimating,   \* useState isAnimating
  animationLog,  \* useState animationLog
  dimensions,    \* useState dimensions
  heap,          \* the TreeNode objects alive, by reference
  procs,         \* the async handler invocations suspended on await sleep(800)
  timerQ,        \* the pending timers, in the order they were started
  events,        \* how many user events have happened
  lastEvent      \* the event or timer callback that ran last

engineVars == <<root, passed, lastOp>>
compVars == <<tree, inputValue, isAnimating, animationLog, dimensions, heap,
              procs, timerQ, events, lastEvent>>
vars == <<engineVars, compVars>>

(***************************************************************************)
(* TreeNode.ts: the node type.  A TreeNode object and everything it owns   *)
(* is a nested record; an absent child is null.  A node inside a tree is   *)
(* addressed by the path of "left"/"right" links that leads to it.         *)
(***************************************************************************)
null == [isNull |-> TRUE]

TreeNode(value) ==
  [ value          |-> value,
    left           |-> null,
    right          |-> null,
    x              |-> 0,
    y              |-> 0,
    isHighlighted  |-> FALSE,
    isVisited      |-> FALSE,
    isSearchResult |-> FALSE ]

\* the child of node n on side d
child(n, d) == IF d = "left" THEN n.left ELSE n.right

RECURSIVE nodeAt(_, _)
nodeAt(t, path) ==
  IF path = <<>> THEN t ELSE nodeAt(child(t, Head(path)), Tail(path))

\* the paths of all nodes of the tree t, seen from the node at path `here`
RECURSIVE pathsFrom(_, _)
pathsFrom(t, here) ==
  IF t = null THEN {}
  ELSE {here} \cup pathsFrom(t.left, Append(here, "left"))
              \cup pathsFrom(t.right, Append(here, "right"))

Paths(t) == pathsFrom(t, <<>>)

\* the keys held in the (sub)tree t
Keys(t) == { nodeAt(t, p).value : p \in Paths(t) }

(***************************************************************************)
(* TreeNode.insert: returns `this`, here the object after the call.        *)
(***************************************************************************)
RECURSIVE insert_dupRight(_, _)
insert_dupRight(this, value) ==
  IF value < this.value THEN
    IF this.left = null
      THEN [this EXCEPT !.left = TreeNode(value)]
      ELSE [this EXCEPT !.left = insert_dupRight(this.left, value)]
  ELSE
    IF this.right = null
      THEN [this EXCEPT !.right = TreeNode(value)]
      ELSE [this EXCEPT !.right = insert_dupRight(this.right, value)]

RECURSIVE insert_replace(_, _)
insert_replace(this, value) ==
  IF value < this.value THEN
    IF this.left = null
      THEN [this EXCEPT !.left = TreeNode(value)]
      ELSE [this EXCEPT !.left = insert_replace(this.left, value)]
  ELSE IF value > this.value THEN
    IF this.right = null
      THEN [this EXCEPT !.right = TreeNode(value)]
      ELSE [this EXCEPT !.right = insert_replace(this.right, value)]
  ELSE TreeNode(value)

RECURSIVE insert_mirror(_, _)
insert_mirror(this, value) ==
  IF value > this.value THEN
    IF this.left = null
      THEN [this EXCEPT !.left = TreeNode(value)]
      ELSE [this EXCEPT !.left = insert_mirror(this.left, value)]
  ELSE IF value < this.value THEN
    IF this.right = null
      THEN [this EXCEPT !.right = TreeNode(value)]
      ELSE [this EXCEPT !.right = insert_mirror(this.right, value)]
  ELSE this

RECURSIVE insert_dropsSibling(_, _)
insert_dropsSibling(this, value) ==
  IF value < this.value THEN
    IF this.left = null
      THEN [this EXCEPT !.left = TreeNode(value)]
      ELSE [this EXCEPT !.left = insert_dropsSibling(this.left, value), !.right = null]
  ELSE IF value > this.value THEN
    IF this.right = null
      THEN [this EXCEPT !.right = TreeNode(value)]
      ELSE [this EXCEPT !.right = insert_dropsSibling(this.right, value)]
  ELSE this

RECURSIVE insert(_, _)
insert(this, value) ==
  IF value < this.value THEN
    IF this.left = null
      THEN [this EXCEPT !.left = TreeNode(value)]
      ELSE [this EXCEPT !.left = insert(this.left, value)]
  ELSE IF value > this.value THEN
    IF this.right = null
      THEN [this EXCEPT !.right = TreeNode(value)]
      ELSE [this EXCEPT !.right = insert(this.right, value)]
  ELSE this

(***************************************************************************)
(* TreeNode.search: the node found, or null.                               *)
(***************************************************************************)
RECURSIVE search_leftOnly(_, _)
search_leftOnly(this, value) ==
  IF value = this.value THEN this
  ELSE IF value < this.value /\ this.left # null
    THEN search_leftOnly(this.left, value)
  ELSE null

RECURSIVE search(_, _)
search(this, value) ==
  IF value = this.value THEN this
  ELSE IF value < this.value /\ this.left # null THEN search(this.left, value)
  ELSE IF value > this.value /\ this.right # null THEN search(this.right, value)
  ELSE null

\* the nodes the calls of search are made on, from `this` (at `here`) down:
\* the nodes whose key the search compares the value with
RECURSIVE searchCalls(_, _, _)
searchCalls(this, value, here) ==
  <<here>> \o
  (IF value = this.value THEN <<>>
   ELSE IF value < this.value /\ this.left # null
     THEN searchCalls(this.left, value, Append(here, "left"))
   ELSE IF value > this.value /\ this.right # null
     THEN searchCalls(this.right, value, Append(here, "right"))
   ELSE <<>>)

(***************************************************************************)
(* The three traversals.  The callback is a parameter of the source; what  *)
(* a traversal does is call it on nodes in some order, so each is modelled *)
(* by the sequence of nodes (paths from `this`, which is at `here`) the    *)
(* callback is invoked on.                                                 *)
(***************************************************************************)
RECURSIVE inOrderTraversal_selfFirst(_, _)
inOrderTraversal_selfFirst(this, here) ==
  <<here>>
  \o (IF this.left # null
        THEN inOrderTraversal_selfFirst(this.left, Append(here, "left")) ELSE <<>>)
  \o (IF this.right # null
        THEN inOrderTraversal_selfFirst(this.right, Append(here, "right")) ELSE <<>>)

RECURSIVE inOrderTraversal(_, _)
inOrderTraversal(this, here) ==
  (IF this.left # null
     THEN inOrderTraversal(this.left, Append(here, "left")) ELSE <<>>)
  \o <<here>>
  \o (IF this.right # null
        THEN inOrderTraversal(this.right, Append(here, "right")) ELSE <<>>)

RECURSIVE preOrderTraversal(_, _)
preOrderTraversal(this, here) ==
  <<here>>
  \o (IF this.left # null
        THEN preOrderTraversal(this.left, Append(here, "left")) ELSE <<>>)
  \o (IF this.right # null
        THEN preOrderTraversal(this.right, Append(here, "right")) ELSE <<>>)

\* getAllNodes: [this], then the nodes of the left subtree, then those of
\* the right subtree.  A node of the array is named by its path from the
\* node at `here`.
RECURSIVE getAllNodes_leftOnly(_, _)
getAllNodes_leftOnly(this, here) ==
  <<here>>
  \o (IF this.left # null
        THEN getAllNodes_leftOnly(this.left, Append(here, "left")) ELSE <<>>)

RECURSIVE getAllNodes(_, _)
getAllNodes(this, here) ==
  <<here>>
  \o (IF this.left # null
        THEN getAllNodes(this.left, Append(here, "left")) ELSE <<>>)
  \o (IF this.right # null
        THEN getAllNodes(this.right, Append(here, "right")) ELSE <<>>)

RECURSIVE postOrderTraversal_selfBeforeRight(_, _)
postOrderTraversal_selfBeforeRight(this, here) ==
  (IF this.left # null
     THEN postOrderTraversal_selfBeforeRight(this.left, Append(here, "left")) ELSE <<>>)
  \o <<here>>
  \o (IF this.right # null
        THEN postOrderTraversal_selfBeforeRight(this.right, Append(here, "right")) ELSE <<>>)

RECURSIVE postOrderTraversal(_, _)
postOrderTraversal(this, here) ==
  (IF this.left # null
     THEN postOrderTraversal(this.left, Append(here, "left")) ELSE <<>>)
  \o (IF this.right # null
        THEN postOrderTraversal(this.right, Append(here, "right")) ELSE <<>>)
  \o <<here>>

(***************************************************************************)
(* TreeNode.clearHighlights, getSubtreeWidth, calculatePositions.          *)
(* Coordinates are kept in units of 1/Scale pixel, so that the spacing     *)
(* (multiplied by 0.75 per level, floored at 60) stays an integer wherever *)
(* it is used: a spacing that no longer divides is below 60 * Scale for    *)
(* the widths of WindowWidths and is replaced by the floor of 60.          *)
(***************************************************************************)
Scale == 2 * 2 * 2 * 2 * 2 * 2

Max(a, b) == IF a >= b THEN a ELSE b

RECURSIVE clearHighlights(_)
clearHighlights(this) ==
  [this EXCEPT
     !.isHighlighted = FALSE,
     !.isVisited = FALSE,
     !.isSearchResult = FALSE,
     !.left = IF this.left # null THEN clearHighlights(this.left) ELSE null,
     !.right = IF this.right # null THEN clearHighlights(this.right) ELSE null]

RECURSIVE getSubtreeWidth(_)
getSubtreeWidth(node) ==
  IF node = null THEN 0
  ELSE 1 + Max(getSubtreeWidth(node.left), getSubtreeWidth(node.right))

RECURSIVE calculatePositions_rightOnLeft(_, _, _, _)
calculatePositions_rightOnLeft(this, x, y, horizontalSpacing) ==
  LET leftWidth == IF this.left # null THEN getSubtreeWidth(this.left) ELSE 0
      rightWidth == IF this.right # null THEN getSubtreeWidth(this.right) ELSE 0
      baseSpacing == Max(60 * Scale, horizontalSpacing)
      verticalSpacing == 90 * Scale
      leftX == x - Max(baseSpacing, leftWidth * 40 * Scale)
      rightX == x - Max(baseSpacing, rightWidth * 40 * Scale)
  IN [this EXCEPT
        !.x = x,
        !.y = y,
        !.left = IF this.left # null
                   THEN calculatePositions_rightOnLeft(this.left, leftX, y + verticalSpacing,
                                                       (baseSpacing * 3) \div 4)
                   ELSE null,
        !.right = IF this.right # null
                    THEN calculatePositions_rightOnLeft(this.right, rightX, y + verticalSpacing,
                                                        (baseSpacing * 3) \div 4)
                    ELSE null]

RECURSIVE calculatePositions_sameRow(_, _, _, _)
calculatePositions_sameRow(this, x, y, horizontalSpacing) ==
  LET leftWidth == IF this.left # null THEN getSubtreeWidth(this.left) ELSE 0
      rightWidth == IF this.right # null THEN getSubtreeWidth(this.right) ELSE 0
      baseSpacing == Max(60 * Scale, horizontalSpacing)
      verticalSpacing == 90 * Scale
      leftX == x - Max(baseSpacing, leftWidth * 40 * Scale)
      rightX == x + Max(baseSpacing, rightWidth * 40 * Scale)
  IN [this EXCEPT
        !.x = x,
        !.y = y,
        !.left = IF this.left # null
                   THEN calculatePositions_sameRow(this.left, leftX, y + verticalSpacing,
                                                   (baseSpacing * 3) \div 4)
                   ELSE null,
        !.right = IF this.right # null
                    THEN calculatePositions_sameRow(this.right, rightX, y,
                                                    (baseSpacing * 3) \div 4)
                    ELSE null]

RECURSIVE calculatePositions_keepsPlaced(_, _, _, _)
calculatePositions_keepsPlaced(this, x, y, horizontalSpacing) ==
  LET leftWidth == IF this.left # null THEN getSubtreeWidth(this.left) ELSE 0
      rightWidth == IF this.right # null THEN getSubtreeWidth(this.right) ELSE 0
      baseSpacing == Max(60 * Scale, horizontalSpacing)
      verticalSpacing == 90 * Scale
      leftX == x - Max(baseSpacing, leftWidth * 40 * Scale)
      rightX == x + Max(baseSpacing, rightWidth * 40 * Scale)
  IN [this EXCEPT
        !.x = IF this.y = 0 THEN x ELSE this.x,
        !.y = y,
        !.left = IF this.left # null
                   THEN calculatePositions_keepsPlaced(this.left, leftX, y + verticalSpacing,
                                                       (baseSpacing * 3) \div 4)
                   ELSE null,
        !.right = IF this.right # null
                    THEN calculatePositions_keepsPlaced(this.right, rightX, y + verticalSpacing,
                                                        (baseSpacing * 3) \div 4)
                    ELSE null]

RECURSIVE calculatePositions_clearsHighlight(_, _, _, _)
calculatePositions_clearsHighlight(this, x, y, horizontalSpacing) ==
  LET leftWidth == IF this.left # null THEN getSubtreeWidth(this.left) ELSE 0
      rightWidth == IF this.right # null THEN getSubtreeWidth(this.right) ELSE 0
      baseSpacing == Max(60 * Scale, horizontalSpacing)
      verticalSpacing == 90 * Scale
      leftX == x - Max(baseSpacing, leftWidth * 40 * Scale)
      rightX == x + Max(baseSpacing, rightWidth * 40 * Scale)
  IN [this EXCEPT
        !.x = x,
        !.y = y,
        !.isHighlighted = FALSE,
        !.left = IF this.left # null
                   THEN calculatePositions_clearsHighlight(this.left, leftX,
                                                           y + verticalSpacing,
                                                           (baseSpacing * 3) \div 4)
                   ELSE null,
        !.right = IF this.right # null
                    THEN calculatePositions_clearsHighlight(this.right, rightX,
                                                            y + verticalSpacing,
                                                            (baseSpacing * 3) \div 4)
                    ELSE null]

RECURSIVE calculatePositions(_, _, _, _)
calculatePositions(this, x, y, horizontalSpacing) ==
  LET leftWidth == IF this.left # null THEN getSubtreeWidth(this.left) ELSE 0
      rightWidth == IF this.right # null THEN getSubtreeWidth(this.right) ELSE 0
      baseSpacing == Max(60 * Scale, horizontalSpacing)
      verticalSpacing == 90 * Scale
      leftX == x - Max(baseSpacing, leftWidth * 40 * Scale)
      rightX == x + Max(baseSpacing, rightWidth * 40 * Scale)
  IN [this EXCEPT
        !.x = x,
        !.y = y,
        !.left = IF this.left # null
                   THEN calculatePositions(this.left, leftX, y + verticalSpacing,
                                           (baseSpacing * 3) \div 4)
                   ELSE null,
        !.right = IF this.right # null
                    THEN calculatePositions(this.right, rightX, y + verticalSpacing,
                                            (baseSpacing * 3) \div 4)
                    ELSE null]

\* the tree t with the node at `path` replaced by n (an assignment to a field
\* of a node reached through a reference)
RECURSIVE withNode(_, _, _)
withNode(t, path, n) ==
  IF path = <<>> THEN n
  ELSE IF Head(path) = "left"
    THEN [t EXCEPT !.left = withNode(t.left, Tail(path), n)]
    ELSE [t EXCEPT !.right = withNode(t.right, Tail(path), n)]

setHighlighted(t, path, b) ==
  withNode(t, path, [nodeAt(t, path) EXCEPT !.isHighlighted = b])

\* the keys of the nodes a traversal result names, in order
valuesOf(t, pathSeq) == [i \in 1..Len(pathSeq) |-> nodeAt(t, pathSeq[i]).value]

(***************************************************************************)
(* TreeVisualization.tsx: the component.                                   *)
(*                                                                         *)
(* A TreeNode tree is an object: the React state `tree`, the closures of a *)
(* render and the locals of a suspended handler hold references to it, and *)
(* a mutation through one reference is seen through the others.  heap maps *)
(* a reference to the object; an object nothing refers to is dropped.      *)
(***************************************************************************)
NoRef == 0
Refs == 1..(MaxProcs + MaxTimers + 1)
Pids == 1..MaxProcs

\* the numbers of the quick-add buttons
QuickAddNumbers == {10, 25, 75, 90}
\* what the user types into the input field
TypedInputs == {"", "60", "65", "abc"}
\* window.innerWidth and window.innerHeight at mount and at a resize
WindowWidths == {840, 1240}
WindowHeights == {800}

\* the decimal numerals the model needs
Numerals ==
  ("10" :> 10) @@ ("25" :> 25) @@ ("60" :> 60) @@ ("65" :> 65) @@
  ("75" :> 75) @@ ("90" :> 90)

\* e.target.value of the <input type="number">: the text typed when it is a
\* number, the empty string when it is not
targetValue(text) == IF text \in DOMAIN Numerals THEN text ELSE ""

\* parseInt: the number a numeral denotes, NaN for anything else (the empty
\* string included)
parseInt(str) ==
  IF str \in DOMAIN Numerals
    THEN [isNaN |-> FALSE, num |-> Numerals[str]]
    ELSE [isNaN |-> TRUE]

isNaN(v) == v.isNaN

\* Number.prototype.toString
toString(num) == CHOOSE str \in DOMAIN Numerals : Numerals[str] = num

updateDimensions(innerWidth, innerHeight) ==
  [width |-> Max(800, innerWidth - 40), height |-> Max(400, innerHeight - 300)]

\* x.calculatePositions(dimensions.width / 2, 80, dimensions.width / 8)
positioned(t, dims) ==
  calculatePositions(t, (dims.width * Scale) \div 2, 80 * Scale,
                     (dims.width * Scale) \div 8)

\* the tree the [dimensions] effect builds
sampleTree ==
  insert(insert(insert(insert(insert(insert(TreeNode(50), 30), 70), 20), 40), 60), 80)

RECURSIVE reconstructTree(_)
reconstructTree(node) ==
  [TreeNode(node.value) EXCEPT
     !.left = IF node.left # null THEN reconstructTree(node.left) ELSE null,
     !.right = IF node.right # null THEN reconstructTree(node.right) ELSE null]

\* a log line: its text and the values interpolated into it
Msg(kind, a, b, list) == [kind |-> kind, a |-> a, b |-> b, list |-> list]

addAnimationLog_sliceFive(prev, message) ==
  Append(SubSeq(prev, Max(1, Len(prev) - 4), Len(prev)), message)

\* setAnimationLog(prev => [...prev.slice(-4), message])
addAnimationLog(prev, message) ==
  Append(SubSeq(prev, Max(1, Len(prev) - 3), Len(prev)), message)

\* what a handler created by the current render closes over
closure ==
  [inputValue |-> inputValue, isAnimating |-> isAnimating,
   tree |-> tree, dimensions |-> dimensions]

idle == [pc |-> "idle"]
Running(ps) == { p \in Pids : ps[p].pc # "idle" }
freePid(ps) == CHOOSE p \in Pids \ Running(ps) : \A q \in Pids \ Running(ps) : p <= q

quickTimers(q) == { i \in 1..Len(q) : q[i].kind = "quick" }

\* the references held by suspended handlers and by pending timer closures
held(ps, q) ==
  ({ ps[p].tree : p \in Running(ps) } \cup { q[i].c.tree : i \in quickTimers(q) })
    \ {NoRef}

\* the reference of an object made now: one that nothing holds any more
newRef(ps, q) ==
  CHOOSE r \in Refs \ held(ps, q) : \A r2 \in Refs \ held(ps, q) : r <= r2

\* the heap h once the state refers to `obj` under reference r
store(h, ps, q, r, obj) ==
  [i \in Refs |-> IF i = r THEN obj ELSE IF i \in held(ps, q) THEN h[i] ELSE null]

\* the heap h while the state goes on referring to `keep`
retain(h, ps, q, keep) ==
  [i \in Refs |-> IF i \in held(ps, q) \cup {keep} THEN h[i] ELSE null]

\* Timers run in the order they were started when their delays allow it:
\* a sleep(800) runs after every timer started before it, a quick-add timer
\* (100 ms) after every quick-add timer started before it.
\* Every call of sleep starts a timer of its own: n tells the timers of one
\* handler invocation apart (it is the number of sleeps that went before).
sleepTimer(p, n) == [kind |-> "sleep", pid |-> p, n |-> n]
quickTimer(c) == [kind |-> "quick", c |-> c]
without(q, i) == SubSeq(q, 1, i - 1) \o SubSeq(q, i + 1, Len(q))

userEvent == events < MaxEvents /\ events' = events + 1

\* Every pending quick-add timer and every command may start a handler
\* invocation: a command or a quick-add click is taken only while one more
\* invocation still fits in MaxProcs.
roomForOne == Cardinality(Running(procs)) + Cardinality(quickTimers(timerQ)) < MaxProcs

(***************************************************************************)
(* The initial state: the component is mounted, both effects have run.     *)
(***************************************************************************)
EngineParked ==
  /\ root = null
  /\ passed = {}
  /\ lastOp = [op |-> "none"]

Init ==
  /\ EngineParked
  /\ \E w \in WindowWidths, h \in WindowHeights :
       /\ dimensions = updateDimensions(w, h)
       /\ heap = [i \in Refs |-> IF i = 1 THEN positioned(sampleTree, dimensions) ELSE null]
  /\ tree = 1
  /\ inputValue = ""
  /\ isAnimating = FALSE
  /\ animationLog = <<>>
  /\ procs = [p \in Pids |-> idle]
  /\ timerQ = <<>>
  /\ events = 0
  /\ lastEvent = [name |-> "mount"]

(***************************************************************************)
(* handleInsert and animateInsertion.  c is the closure of the render that *)
(* created the handler, q the pending timers once the call is under way.   *)
(***************************************************************************)
\* lines 60-68: the rest of handleInsert once animateInsertion has returned.
\* lastEvent keeps the object the handler ran on as its last write leaves it.
finishInsert(p, t, log) ==
  LET pr == procs[p]
      ps == [procs EXCEPT ![p] = idle]
      q == Tail(timerQ)
      inserted == positioned(insert(t, pr.value), pr.dimensions)
      newTree == positioned(reconstructTree(inserted), pr.dimensions)
      r == newRef(ps, q)
  IN /\ tree' = r
     /\ heap' = store([heap EXCEPT ![pr.tree] = inserted], ps, q, r, newTree)
     /\ animationLog' = log
     /\ inputValue' = ""
     /\ isAnimating' = FALSE
     /\ procs' = ps
     /\ timerQ' = q
     /\ lastEvent' = [name |-> "wake", op |-> "insert", pid |-> p, done |-> TRUE,
                      obj |-> inserted]

\* lines 86-89: highlight the node at `path`, publish a copy, sleep
stepInsert(p, pr, t, path, log, q) ==
  LET t2 == setHighlighted(t, path, TRUE)
      ps == [procs EXCEPT ![p] = [pr EXCEPT !.current = path]]
      q2 == Append(q, sleepTimer(p, Len(path)))
      r == newRef(ps, q2)
  IN /\ tree' = r
     /\ heap' = store([heap EXCEPT ![pr.tree] = t2], ps, q2, r, reconstructTree(t2))
     /\ animationLog' = log
     /\ procs' = ps
     /\ timerQ' = q2

handleInsert_gateBeforeGuard(c, q, via) ==
  LET value == parseInt(c.inputValue) IN
  IF isNaN(value) \/ c.isAnimating THEN
    /\ lastEvent' = [name |-> "handleInsert", via |-> via, ran |-> FALSE]
    /\ timerQ' = q
    /\ heap' = retain(heap, procs, q, tree)
    /\ isAnimating' = (isAnimating \/ ~c.isAnimating)
    /\ UNCHANGED <<tree, inputValue, animationLog, procs>>
  ELSE IF c.tree = NoRef THEN
    LET newTree == positioned(TreeNode(value.num), c.dimensions)
        r == newRef(procs, q)
    IN /\ lastEvent' = [name |-> "handleInsert", via |-> via, ran |-> TRUE]
       /\ tree' = r
       /\ heap' = store(heap, procs, q, r, newTree)
       /\ animationLog' =
            addAnimationLog(
              addAnimationLog(animationLog, Msg("Inserting value", value.num, 0, <<>>)),
              Msg("Created root node with value", value.num, 0, <<>>))
       /\ inputValue' = ""
       /\ isAnimating' = FALSE
       /\ timerQ' = q
       /\ UNCHANGED procs
  ELSE
    /\ Running(procs) # Pids
    /\ LET p == freePid(procs)
           pr == [pc |-> "sleep", op |-> "insert", tree |-> c.tree,
                  value |-> value.num, current |-> <<>>,
                  dimensions |-> c.dimensions]
       IN stepInsert(p, pr, clearHighlights(heap[c.tree]), <<>>,
                     addAnimationLog(animationLog,
                                     Msg("Inserting value", value.num, 0, <<>>)),
                     q)
    /\ lastEvent' = [name |-> "handleInsert", via |-> via, ran |-> TRUE]
    /\ isAnimating' = TRUE
    /\ UNCHANGED inputValue

handleInsert_noClear(c, q, via) ==
  LET value == parseInt(c.inputValue) IN
  IF isNaN(value) \/ c.isAnimating THEN
    /\ lastEvent' = [name |-> "handleInsert", via |-> via, ran |-> FALSE]
    /\ timerQ' = q
    /\ heap' = retain(heap, procs, q, tree)
    /\ UNCHANGED <<tree, inputValue, isAnimating, animationLog, procs>>
  ELSE IF c.tree = NoRef THEN
    LET newTree == positioned(TreeNode(value.num), c.dimensions)
        r == newRef(procs, q)
    IN /\ lastEvent' = [name |-> "handleInsert", via |-> via, ran |-> TRUE]
       /\ tree' = r
       /\ heap' = store(heap, procs, q, r, newTree)
       /\ animationLog' =
            addAnimationLog(
              addAnimationLog(animationLog, Msg("Inserting value", value.num, 0, <<>>)),
              Msg("Created root node with value", value.num, 0, <<>>))
       /\ inputValue' = ""
       /\ isAnimating' = FALSE
       /\ timerQ' = q
       /\ UNCHANGED procs
  ELSE
    /\ Running(procs) # Pids
    /\ LET p == freePid(procs)
           pr == [pc |-> "sleep", op |-> "insert", tree |-> c.tree,
                  value |-> value.num, current |-> <<>>,
                  dimensions |-> c.dimensions]
       IN stepInsert(p, pr, heap[c.tree], <<>>,
                     addAnimationLog(animationLog,
                                     Msg("Inserting value", value.num, 0, <<>>)),
                     q)
    /\ lastEvent' = [name |-> "handleInsert", via |-> via, ran |-> TRUE]
    /\ isAnimating' = TRUE
    /\ UNCHANGED inputValue

handleInsert(c, q, via) ==
  LET value == parseInt(c.inputValue) IN
  IF isNaN(value) \/ c.isAnimating THEN
    /\ lastEvent' = [name |-> "handleInsert", via |-> via, ran |-> FALSE]
    /\ timerQ' = q
    /\ heap' = retain(heap, procs, q, tree)
    /\ UNCHANGED <<tree, inputValue, isAnimating, animationLog, procs>>
  ELSE IF c.tree = NoRef THEN
    LET newTree == positioned(TreeNode(value.num), c.dimensions)
        r == newRef(procs, q)
    IN /\ lastEvent' = [name |-> "handleInsert", via |-> via, ran |-> TRUE]
       /\ tree' = r
       /\ heap' = store(heap, procs, q, r, newTree)
       /\ animationLog' =
            addAnimationLog(
              addAnimationLog(animationLog, Msg("Inserting value", value.num, 0, <<>>)),
              Msg("Created root node with value", value.num, 0, <<>>))
       /\ inputValue' = ""
       /\ isAnimating' = FALSE
       /\ timerQ' = q
       /\ UNCHANGED procs
  ELSE
    /\ Running(procs) # Pids
    /\ LET p == freePid(procs)
           pr == [pc |-> "sleep", op |-> "insert", tree |-> c.tree,
                  value |-> value.num, current |-> <<>>,
                  dimensions |-> c.dimensions]
       IN stepInsert(p, pr, clearHighlights(heap[c.tree]), <<>>,
                     addAnimationLog(animationLog,
                                     Msg("Inserting value", value.num, 0, <<>>)),
                     q)
    /\ lastEvent' = [name |-> "handleInsert", via |-> via, ran |-> TRUE]
    /\ isAnimating' = TRUE
    /\ UNCHANGED inputValue

\* animateInsertion resumed after its sleep: lines 91-114, then lines 60-68
wakeInsert(p) ==
  LET pr == procs[p]
      t == heap[pr.tree]
      current == nodeAt(t, pr.current)
      value == pr.value
      side == IF value < current.value THEN "left" ELSE "right"
      log1 == addAnimationLog(animationLog,
                Msg(IF side = "left" THEN "< go left" ELSE "> go right",
                    value, current.value, <<>>))
  IN IF value = current.value THEN
       /\ finishInsert(p, setHighlighted(t, pr.current, FALSE),
                       addAnimationLog(animationLog,
                                       Msg("already exists in tree", value, 0, <<>>)))
     ELSE IF child(current, side) = null THEN
       /\ finishInsert(p, setHighlighted(t, pr.current, FALSE),
                       addAnimationLog(log1,
                         Msg(IF side = "left"
                               THEN "Found insertion point: left child of"
                               ELSE "Found insertion point: right child of",
                             current.value, 0, <<>>)))
     ELSE
       /\ stepInsert(p, pr, setHighlighted(t, pr.current, FALSE),
                     Append(pr.current, side), log1, Tail(timerQ))
       /\ lastEvent' = [name |-> "wake", op |-> "insert", pid |-> p, done |-> FALSE]
       /\ UNCHANGED <<inputValue, isAnimating>>

(***************************************************************************)
(* handleSearch.                                                           *)
(***************************************************************************)
\* lines 128-131: highlight the node at `path`, publish a copy, sleep
stepSearch(p, pr, t, path, log, q) ==
  LET t2 == setHighlighted(t, path, TRUE)
      ps == [procs EXCEPT ![p] = [pr EXCEPT !.current = path]]
      q2 == Append(q, sleepTimer(p, Len(path)))
      r == newRef(ps, q2)
  IN /\ tree' = r
     /\ heap' = store([heap EXCEPT ![pr.tree] = t2], ps, q2, r, reconstructTree(t2))
     /\ animationLog' = log
     /\ procs' = ps
     /\ timerQ' = q2

finishSearch_noReset(p, t, log) ==
  LET pr == procs[p]
      ps == [procs EXCEPT ![p] = idle]
      q == Tail(timerQ)
      r == newRef(ps, q)
  IN /\ tree' = r
     /\ heap' = store([heap EXCEPT ![pr.tree] = t], ps, q, r, reconstructTree(t))
     /\ animationLog' = log
     /\ inputValue' = ""
     /\ isAnimating' = isAnimating
     /\ procs' = ps
     /\ timerQ' = q
     /\ lastEvent' = [name |-> "wake", op |-> "search", pid |-> p, done |-> TRUE,
                      obj |-> t]

\* lines 149-155: the loop is over
finishSearch(p, t, log) ==
  LET pr == procs[p]
      ps == [procs EXCEPT ![p] = idle]
      q == Tail(timerQ)
      r == newRef(ps, q)
  IN /\ tree' = r
     /\ heap' = store([heap EXCEPT ![pr.tree] = t], ps, q, r, reconstructTree(t))
     /\ animationLog' = log
     /\ inputValue' = ""
     /\ isAnimating' = FALSE
     /\ procs' = ps
     /\ timerQ' = q
     /\ lastEvent' = [name |-> "wake", op |-> "search", pid |-> p, done |-> TRUE,
                      obj |-> t]

handleSearch_logsBeforeGuard(c, q, via) ==
  LET value == parseInt(c.inputValue) IN
  IF isNaN(value) \/ c.tree = NoRef \/ c.isAnimating THEN
    /\ lastEvent' = [name |-> "handleSearch", via |-> via, ran |-> FALSE]
    /\ timerQ' = q
    /\ heap' = retain(heap, procs, q, tree)
    /\ animationLog' =
         IF isNaN(value) \/ c.isAnimating THEN animationLog
         ELSE addAnimationLog(animationLog, Msg("Searching for value", value.num, 0, <<>>))
    /\ UNCHANGED <<tree, inputValue, isAnimating, procs>>
  ELSE
    /\ Running(procs) # Pids
    /\ LET p == freePid(procs)
           pr == [pc |-> "sleep", op |-> "search", tree |-> c.tree,
                  value |-> value.num, current |-> <<>>]
       IN stepSearch(p, pr, clearHighlights(heap[c.tree]), <<>>,
                     addAnimationLog(animationLog,
                                     Msg("Searching for value", value.num, 0, <<>>)),
                     q)
    /\ lastEvent' = [name |-> "handleSearch", via |-> via, ran |-> TRUE]
    /\ isAnimating' = TRUE
    /\ UNCHANGED inputValue

handleSearch(c, q, via) ==
  LET value == parseInt(c.inputValue) IN
  IF isNaN(value) \/ c.tree = NoRef \/ c.isAnimating THEN
    /\ lastEvent' = [name |-> "handleSearch", via |-> via, ran |-> FALSE]
    /\ timerQ' = q
    /\ heap' = retain(heap, procs, q, tree)
    /\ UNCHANGED <<tree, inputValue, isAnimating, animationLog, procs>>
  ELSE
    /\ Running(procs) # Pids
    /\ LET p == freePid(procs)
           pr == [pc |-> "sleep", op |-> "search", tree |-> c.tree,
                  value |-> value.num, current |-> <<>>]
       IN stepSearch(p, pr, clearHighlights(heap[c.tree]), <<>>,
                     addAnimationLog(animationLog,
                                     Msg("Searching for value", value.num, 0, <<>>)),
                     q)
    /\ lastEvent' = [name |-> "handleSearch", via |-> via, ran |-> TRUE]
    /\ isAnimating' = TRUE
    /\ UNCHANGED inputValue

wakeSearch_mirror(p) ==
  LET pr == procs[p]
      t == heap[pr.tree]
      current == nodeAt(t, pr.current)
      value == pr.value
      side == IF value < current.value THEN "right" ELSE "left"
      log1 == addAnimationLog(animationLog,
                Msg(IF side = "left" THEN "< go left" ELSE "> go right",
                    value, current.value, <<>>))
  IN IF value = current.value THEN
       /\ finishSearch(p,
            withNode(t, pr.current, [current EXCEPT !.isSearchResult = TRUE]),
            addAnimationLog(animationLog, Msg("Found", value, 0, <<>>)))
     ELSE IF child(current, side) = null THEN
       /\ finishSearch(p, setHighlighted(t, pr.current, FALSE),
            addAnimationLog(log1, Msg("not found in tree", value, 0, <<>>)))
     ELSE
       /\ stepSearch(p, pr, setHighlighted(t, pr.current, FALSE),
                     Append(pr.current, side), log1, Tail(timerQ))
       /\ lastEvent' = [name |-> "wake", op |-> "search", pid |-> p, done |-> FALSE]
       /\ UNCHANGED <<inputValue, isAnimating>>

\* handleSearch resumed after its sleep: lines 133-155
wakeSearch(p) ==
  LET pr == procs[p]
      t == heap[pr.tree]
      current == nodeAt(t, pr.current)
      value == pr.value
      side == IF value < current.value THEN "left" ELSE "right"
      log1 == addAnimationLog(animationLog,
                Msg(IF side = "left" THEN "< go left" ELSE "> go right",
                    value, current.value, <<>>))
  IN IF value = current.value THEN
       /\ finishSearch(p,
            withNode(t, pr.current, [current EXCEPT !.isSearchResult = TRUE]),
            addAnimationLog(animationLog, Msg("Found", value, 0, <<>>)))
     ELSE IF child(current, side) = null THEN
       /\ finishSearch(p, setHighlighted(t, pr.current, FALSE),
            addAnimationLog(log1, Msg("not found in tree", value, 0, <<>>)))
     ELSE
       /\ stepSearch(p, pr, setHighlighted(t, pr.current, FALSE),
                     Append(pr.current, side), log1, Tail(timerQ))
       /\ lastEvent' = [name |-> "wake", op |-> "search", pid |-> p, done |-> FALSE]
       /\ UNCHANGED <<inputValue, isAnimating>>

(***************************************************************************)
(* handleTraversal and the three animated traversals.  Each of them awaits *)
(* three things in its own order: the traversal of the left child, the     *)
(* callback on the node, the traversal of the right child.  A suspended    *)
(* traversal is the stack of its pending calls: the node of each and the   *)
(* number of the stage it is awaiting.  Only the callback sleeps; a call   *)
(* on an absent child returns at once.                                     *)
(***************************************************************************)
inOrderTraversalAnimated == <<"left", "self", "right">>
preOrderTraversalAnimated == <<"self", "left", "right">>
postOrderTraversalAnimated == <<"left", "right", "self">>

stagesOf(type) ==
  IF type = "inorder" THEN inOrderTraversalAnimated
  ELSE IF type = "preorder" THEN preOrderTraversalAnimated
  ELSE postOrderTraversalAnimated

\* the stage the top call awaits is over: run on until a callback is called
\* (the stack returned has that call on top) or every call has returned (<<>>).
\* A child link is read when the call on it is made.
RECURSIVE resume(_, _, _)
resume(type, t, stack) ==
  IF stack = <<>> THEN <<>>
  ELSE
    LET f == stack[Len(stack)]
        rest == SubSeq(stack, 1, Len(stack) - 1)
    IN IF f.stage = 3 THEN resume(type, t, rest)
       ELSE
         LET s == stagesOf(type)[f.stage + 1]
             g == [f EXCEPT !.stage = f.stage + 1]
         IN IF s = "self" THEN Append(rest, g)
            ELSE IF child(nodeAt(t, f.node), s) = null
              THEN resume(type, t, Append(rest, g))
              ELSE resume(type, t,
                          Append(Append(rest, g),
                                 [node |-> Append(f.node, s), stage |-> 0]))

\* animateNode up to its sleep, lines 168-172
animateNode(p, pr, t, stack, q) ==
  LET path == stack[Len(stack)].node
      node == nodeAt(t, path)
      t2 == withNode(t, path, [node EXCEPT !.isHighlighted = TRUE, !.isVisited = TRUE])
      ps == [procs EXCEPT ![p] = [pr EXCEPT !.stack = stack,
                                            !.visitedOrder = Append(@, node.value)]]
      q2 == Append(q, sleepTimer(p, Len(pr.visitedOrder)))
      r == newRef(ps, q2)
  IN /\ tree' = r
     /\ heap' = store([heap EXCEPT ![pr.tree] = t2], ps, q2, r, reconstructTree(t2))
     /\ procs' = ps
     /\ timerQ' = q2

handleTraversal(c, q, type) ==
  IF c.tree = NoRef \/ c.isAnimating THEN
    /\ lastEvent' = [name |-> "handleTraversal", via |-> "click", ran |-> FALSE]
    /\ timerQ' = q
    /\ heap' = retain(heap, procs, q, tree)
    /\ UNCHANGED <<tree, inputValue, isAnimating, animationLog, procs>>
  ELSE
    /\ Running(procs) # Pids
    /\ LET p == freePid(procs)
           pr == [pc |-> "sleep", op |-> "traverse", tree |-> c.tree,
                  type |-> type, stack |-> <<>>, visitedOrder |-> <<>>]
           t1 == clearHighlights(heap[c.tree])
       IN animateNode(p, pr, t1, resume(type, t1, <<[node |-> <<>>, stage |-> 0]>>), q)
    /\ animationLog' = addAnimationLog(animationLog, Msg("Starting traversal", 0, 0, <<type>>))
    /\ lastEvent' = [name |-> "handleTraversal", via |-> "click", ran |-> TRUE]
    /\ isAnimating' = TRUE
    /\ UNCHANGED inputValue

\* animateNode resumed after its sleep (line 173), then the traversal goes on
\* to the next callback or to the end of handleTraversal (lines 185-190)
wakeTraversal(p) ==
  LET pr == procs[p]
      t == setHighlighted(heap[pr.tree], pr.stack[Len(pr.stack)].node, FALSE)
      stack == resume(pr.type, t, pr.stack)
  IN IF stack = <<>> THEN
       LET ps == [procs EXCEPT ![p] = idle]
           q == Tail(timerQ)
       IN /\ heap' = retain([heap EXCEPT ![pr.tree] = t], ps, q, tree)
          /\ animationLog' = addAnimationLog(animationLog,
                               Msg("traversal result", 0, 0, pr.visitedOrder))
          /\ isAnimating' = FALSE
          /\ procs' = ps
          /\ timerQ' = q
          /\ lastEvent' = [name |-> "wake", op |-> "traverse", pid |-> p, done |-> TRUE,
                           obj |-> t]
          /\ UNCHANGED <<tree, inputValue>>
     ELSE
       /\ animateNode(p, pr, t, stack, Tail(timerQ))
       /\ lastEvent' = [name |-> "wake", op |-> "traverse", pid |-> p, done |-> FALSE]
       /\ UNCHANGED <<inputValue, isAnimating, animationLog>>

(***************************************************************************)
(* The events.  A disabled control delivers no event.                      *)
(***************************************************************************)
\* typing into the input field (disabled while isAnimating): onChange
SetInput(str) ==
  /\ userEvent
  /\ ~isAnimating
  /\ targetValue(str) # inputValue
  /\ inputValue' = targetValue(str)
  /\ lastEvent' = [name |-> "setInputValue"]
  /\ UNCHANGED <<tree, isAnimating, animationLog, dimensions, heap, procs, timerQ>>
  /\ UNCHANGED engineVars

\* Enter in the input field (disabled while isAnimating): onKeyPress
PressEnter ==
  /\ userEvent
  /\ roomForOne
  /\ ~isAnimating
  /\ handleInsert(closure, timerQ, "enter")
  /\ UNCHANGED dimensions
  /\ UNCHANGED engineVars

\* the INSERT button (disabled while isAnimating or the input is empty)
ClickInsert ==
  /\ userEvent
  /\ roomForOne
  /\ ~isAnimating /\ inputValue # ""
  /\ handleInsert(closure, timerQ, "click")
  /\ UNCHANGED dimensions
  /\ UNCHANGED engineVars

\* the SEARCH button (disabled while isAnimating, the input is empty or no tree)
ClickSearch ==
  /\ userEvent
  /\ roomForOne
  /\ ~isAnimating /\ inputValue # "" /\ tree # NoRef
  /\ handleSearch(closure, timerQ, "click")
  /\ UNCHANGED dimensions
  /\ UNCHANGED engineVars

\* a quick-add button (disabled while isAnimating): it sets the input and
\* starts a timer on the handleInsert of the render it was clicked in
ClickQuickAdd(num) ==
  /\ userEvent
  /\ roomForOne
  /\ ~isAnimating
  /\ Cardinality(quickTimers(timerQ)) < MaxTimers
  /\ inputValue' = toString(num)
  /\ timerQ' = Append(timerQ, quickTimer(closure))
  /\ lastEvent' = [name |-> "quickAdd", num |-> num]
  /\ UNCHANGED <<tree, isAnimating, animationLog, dimensions, heap, procs>>
  /\ UNCHANGED engineVars

\* the quick-add timer started first runs its handleInsert
QuickAddTimer ==
  /\ quickTimers(timerQ) # {}
  /\ LET i == CHOOSE j \in quickTimers(timerQ) : \A k \in quickTimers(timerQ) : j <= k
     IN handleInsert(timerQ[i].c, without(timerQ, i), "timer")
  /\ UNCHANGED <<dimensions, events>>
  /\ UNCHANGED engineVars

\* a traversal button (disabled while isAnimating or no tree)
ClickTraversal(type) ==
  /\ userEvent
  /\ roomForOne
  /\ ~isAnimating /\ tree # NoRef
  /\ handleTraversal(closure, timerQ, type)
  /\ UNCHANGED dimensions
  /\ UNCHANGED engineVars

\* the Clear Highlights button (disabled while isAnimating)
ClickClearHighlights ==
  /\ userEvent
  /\ ~isAnimating
  /\ IF tree # NoRef THEN
       LET t == clearHighlights(heap[tree])
           r == newRef(procs, timerQ)
       IN /\ tree' = r
          /\ heap' = store([heap EXCEPT ![tree] = t], procs, timerQ, r, reconstructTree(t))
     ELSE UNCHANGED <<tree, heap>>
  /\ lastEvent' = [name |-> "clearHighlights"]
  /\ UNCHANGED <<inputValue, isAnimating, animationLog, dimensions, procs, timerQ>>
  /\ UNCHANGED engineVars

\* the Clear Tree button (disabled while isAnimating)
ClickClearTree ==
  /\ userEvent
  /\ ~isAnimating
  /\ tree' = NoRef
  /\ animationLog' = <<>>
  /\ heap' = retain(heap, procs, timerQ, NoRef)
  /\ lastEvent' = [name |-> "clearTree"]
  /\ UNCHANGED <<inputValue, isAnimating, dimensions, procs, timerQ>>
  /\ UNCHANGED engineVars

\* a window resize: updateDimensions sets a new dimensions object, and the
\* [dimensions] effect of the next render builds the sample tree again
Resize(innerWidth, innerHeight) ==
  /\ userEvent
  /\ dimensions' = updateDimensions(innerWidth, innerHeight)
  /\ LET r == newRef(procs, timerQ)
     IN /\ tree' = r
        /\ heap' = store(heap, procs, timerQ, r, positioned(sampleTree, dimensions'))
  /\ lastEvent' = [name |-> "resize"]
  /\ UNCHANGED <<inputValue, isAnimating, animationLog, procs, timerQ>>
  /\ UNCHANGED engineVars

\* the sleep(800) started first, with no timer started before it pending, ends
Wake(p) ==
  /\ timerQ # <<>>
  /\ Head(timerQ).kind = "sleep"
  /\ Head(timerQ).pid = p
  /\ IF procs[p].op = "insert" THEN wakeInsert(p)
     ELSE IF procs[p].op = "search" THEN wakeSearch(p)
     ELSE wakeTraversal(p)
  /\ UNCHANGED <<dimensions, events>>
  /\ UNCHANGED engineVars

Next ==
  \/ \E str \in TypedInputs : SetInput(str)
  \/ PressEnter
  \/ ClickInsert
  \/ ClickSearch
  \/ \E num \in QuickAddNumbers : ClickQuickAdd(num)
  \/ QuickAddTimer
  \/ \E type \in {"inorder", "preorder", "postorder"} : ClickTraversal(type)
  \/ ClickClearHighlights
  \/ ClickClearTree
  \/ \E w \in WindowWidths, h \in WindowHeights : Resize(w, h)
  \/ \E p \in Pids : Wake(p)

Spec == Init /\ [][Next]_vars

(***************************************************************************)
(* SpecFair: the component when every timer that has been started fires.   *)
(* setTimeout runs its callback once the delay is over, whatever else the  *)
(* user does: a sleep that has come to the head of the timers ends, and a  *)
(* pending quick-add timer runs its handleInsert.  The fairness is stated  *)
(* on what a firing timer does to timerQ: among the steps of Next, those   *)
(* of SleepEnds(p) are the steps of Wake(p) and those of QuickAddFires are *)
(* the steps of QuickAddTimer, and each is enabled exactly when that       *)
(* action is.                                                              *)
(***************************************************************************)
\* Wake(p) seen on the timers alone: the sleep of p at the head of the timers
\* leaves them, and a next sleep of p may join them
SleepEnds(p) ==
  /\ timerQ # <<>>
  /\ Head(timerQ).kind = "sleep"
  /\ Head(timerQ).pid = p
  /\ \/ timerQ' = Tail(timerQ)
     \/ timerQ' = Append(Tail(timerQ), sleepTimer(p, Head(timerQ).n + 1))

\* QuickAddTimer seen on the timers alone: the quick-add timer started first
\* leaves them, and the first sleep of the insert it starts may join them
QuickAddFires ==
  /\ quickTimers(timerQ) # {}
  /\ LET i == CHOOSE j \in quickTimers(timerQ) : \A k \in quickTimers(timerQ) : j <= k
     IN \/ timerQ' = without(timerQ, i)
        \/ /\ Running(procs) # Pids
           /\ timerQ' = Append(without(timerQ, i), sleepTimer(freePid(procs), 0))

SpecFair ==
  /\ Init
  /\ [][Next]_vars
  /\ \A p \in Pids : WF_timerQ(SleepEnds(p))
  /\ WF_timerQ(QuickAddFires)

(***************************************************************************)
(* SpecHandlers: the component with handleSearch and handleTraversal also  *)
(* called in the states where the button that calls them is disabled.  The *)
(* SEARCH button is disabled while there is no tree or no input and the    *)
(* traversal buttons while there is no tree, so that in Spec the guard at  *)
(* the top of these handlers only ever meets the cases its button lets     *)
(* through; here the handler of the current render is called all the same  *)
(* and its guard decides.                                                  *)
(***************************************************************************)
CallHandleSearch ==
  /\ userEvent
  /\ roomForOne
  /\ isAnimating \/ inputValue = "" \/ tree = NoRef
  /\ handleSearch(closure, timerQ, "call")
  /\ UNCHANGED dimensions
  /\ UNCHANGED engineVars

CallHandleTraversal(type) ==
  /\ userEvent
  /\ roomForOne
  /\ isAnimating \/ tree = NoRef
  /\ handleTraversal(closure, timerQ, type)
  /\ UNCHANGED dimensions
  /\ UNCHANGED engineVars

NextHandlers ==
  \/ Next
  \/ CallHandleSearch
  \/ \E type \in {"inorder", "preorder", "postorder"} : CallHandleTraversal(type)

SpecHandlers == Init /\ [][NextHandlers]_vars

(***************************************************************************)
(* SpecEngine: the TreeNode methods called on one root, in any order.      *)
(***************************************************************************)
EngineKeys == { 10 * i : i \in 2..MaxKey }
\* arguments of search: every key and the values between two keys
ProbeKeys == { 5 * i : i \in 3..(2 * MaxKey + 1) }
TraversalTypes == {"inorder", "preorder", "postorder"}

traversal(type, this) ==
  IF type = "inorder" THEN inOrderTraversal(this, <<>>)
  ELSE IF type = "preorder" THEN preOrderTraversal(this, <<>>)
  ELSE postOrderTraversal(this, <<>>)

ComponentParked ==
  /\ tree = NoRef
  /\ inputValue = ""
  /\ isAnimating = FALSE
  /\ animationLog = <<>>
  /\ dimensions = updateDimensions(0, 0)
  /\ heap = [i \in Refs |-> null]
  /\ procs = [p \in Pids |-> idle]
  /\ timerQ = <<>>
  /\ events = 0
  /\ lastEvent = [name |-> "none"]

InitEngine ==
  \E v \in EngineKeys :
    /\ root = TreeNode(v)
    /\ passed = {v}
    /\ lastOp = [op |-> "new", arg |-> v]
    /\ ComponentParked

EngineInsert(v) ==
  /\ root' = insert(root, v)
  /\ passed' = passed \cup {v}
  /\ lastOp' = [op |-> "insert", arg |-> v, before |-> root, ret |-> insert(root, v)]
  /\ UNCHANGED compVars

EngineSearch(v) ==
  /\ lastOp' = [op |-> "search", arg |-> v, before |-> root, ret |-> search(root, v)]
  /\ UNCHANGED <<root, passed>>
  /\ UNCHANGED compVars

EngineTraverse(type) ==
  /\ lastOp' = [op |-> type, before |-> root, ret |-> traversal(type, root)]
  /\ UNCHANGED <<root, passed>>
  /\ UNCHANGED compVars

NextEngine ==
  \/ \E v \in EngineKeys : EngineInsert(v)
  \/ \E v \in ProbeKeys : EngineSearch(v)
  \/ \E type \in TraversalTypes : EngineTraverse(type)

SpecEngine == InitEngine /\ [][NextEngine]_vars

(***************************************************************************)
(* SpecLayout: calculatePositions as a function of the tree it is called   *)
(* on and of its three arguments.  The tree grows by TreeNode.insert from  *)
(* every root key, a node may carry flags, and calculatePositions is       *)
(* called at any time, so that it meets every shape within the bounds,     *)
(* laid out before or not, with coordinates of an earlier shape or of      *)
(* other arguments left on its nodes.                                      *)
(***************************************************************************)
\* (x, y, horizontalSpacing) in pixels: what the component passes for the
\* window widths, the default parameters of the method, a spacing below
\* the floor of 60
ComponentArgs ==
  { <<updateDimensions(w, h).width \div 2, 80, updateDimensions(w, h).width \div 8>> :
      w \in WindowWidths, h \in WindowHeights }

LayoutArgs == ComponentArgs \cup { <<400, 50, 100>>, <<400, 50, 40>> }

InitLayout ==
  \E v \in EngineKeys :
    /\ root = TreeNode(v)
    /\ passed = {v}
    /\ lastOp = [op |-> "new", arg |-> v]
    /\ ComponentParked

\* this.insert(v), called as the component calls it: any number of times on
\* a tree that has not been laid out yet (the effect that builds the sample
\* tree), once between two layouts afterwards (handleInsert)
LayoutInsert(v) ==
  /\ lastOp.op = "insert" => root.y = 0
  /\ root' = insert(root, v)
  /\ passed' = passed \cup {v}
  /\ lastOp' = [op |-> "insert", arg |-> v]
  /\ UNCHANGED compVars

\* current.isHighlighted = true; current.isVisited = true on the root node
LayoutMark ==
  /\ ~root.isHighlighted
  /\ root' = [root EXCEPT !.isHighlighted = TRUE, !.isVisited = TRUE]
  /\ UNCHANGED <<passed, lastOp>>
  /\ UNCHANGED compVars

\* this.calculatePositions(x, y, horizontalSpacing)
LayoutCalculatePositions(a) ==
  /\ root' = calculatePositions(root, a[1] * Scale, a[2] * Scale, a[3] * Scale)
  /\ lastOp' = [op |-> "calculatePositions", x |-> a[1] * Scale, y |-> a[2] * Scale,
                horizontalSpacing |-> a[3] * Scale]
  /\ UNCHANGED passed
  /\ UNCHANGED compVars

\* this.getAllNodes(), called on a tree that has just been laid out
LayoutGetAllNodes ==
  /\ lastOp.op = "calculatePositions"
  /\ lastOp' = [op |-> "getAllNodes", ret |-> getAllNodes(root, <<>>)]
  /\ UNCHANGED <<root, passed>>
  /\ UNCHANGED compVars

\* this.search(v) and the three traversals, called on a tree that has just
\* been laid out: they assign to no field of any node
LayoutRead(op) ==
  /\ lastOp.op = "calculatePositions"
  /\ lastOp' = [op |-> op]
  /\ UNCHANGED <<root, passed>>
  /\ UNCHANGED compVars

NextLayout ==
  \/ \E v \in EngineKeys : LayoutInsert(v)
  \/ LayoutMark
  \/ \E a \in LayoutArgs : LayoutCalculatePositions(a)
  \/ LayoutGetAllNodes
  \/ \E op \in {"search"} \cup TraversalTypes : LayoutRead(op)

SpecLayout == InitLayout /\ [][NextLayout]_vars

(***************************************************************************)
(* Vocabulary of the properties.                                           *)
(***************************************************************************)
\* the shape of a tree: which key sits at which position
Shape(t) == { <<p, nodeAt(t, p).value>> : p \in Paths(t) }

IsPrefix(a, b) == Len(a) <= Len(b) /\ SubSeq(b, 1, Len(a)) = a

\* the place of node p in a sequence of nodes that holds it
pos(s, p) == CHOOSE i \in 1..Len(s) : s[i] = p

Range(s) == { s[i] : i \in 1..Len(s) }

\* tree b is tree a with the three flags false on every node and with the
\* value, the children, x and y of every node as they are in a
clearedCopyOf(a, b) ==
  /\ Paths(b) = Paths(a)
  /\ \A q \in Paths(a) :
       LET n == nodeAt(a, q)
           m == nodeAt(b, q)
       IN /\ ~m.isHighlighted /\ ~m.isVisited /\ ~m.isSearchResult
          /\ m.value = n.value
          /\ m.x = n.x
          /\ m.y = n.y

\* the last n elements of s, all of s when it has fewer
lastOf(s, n) == SubSeq(s, Max(1, Len(s) - n + 1), Len(s))

\* the radius of the circle renderTree draws for a node, in pixels
nodeRadius == 30

Abs(n) == IF n < 0 THEN -n ELSE n

\* the discs of radius nodeRadius around the centres of nodes a and b
\* overlap: the distance between the centres is less than two radii
footprintsOverlap(a, b) ==
  LET dx == Abs(a.x - b.x)
      dy == Abs(a.y - b.y)
      d == 2 * nodeRadius * Scale
  IN dx < d /\ dy < d /\ dx * dx + dy * dy < d * d

\* a tree of the shape of t made of fresh nodes that all hold the key 0: no
\* flag is set and every x and y is 0
RECURSIVE skeleton(_)
skeleton(t) ==
  IF t = null THEN null
  ELSE [TreeNode(0) EXCEPT !.left = skeleton(t.left), !.right = skeleton(t.right)]

\* calculatePositions has just been called on root with arguments a (pixels)
laidOutWith(a) ==
  /\ lastOp.op = "calculatePositions"
  /\ lastOp.x = a[1] * Scale
  /\ lastOp.y = a[2] * Scale
  /\ lastOp.horizontalSpacing = a[3] * Scale

\* the tree the component hands to the renderer
rendered == IF tree = NoRef THEN null ELSE heap[tree]

\* the step leaves the trees as they are: the tree handed to the renderer
\* and every tree object an animation or a pending timer still holds
treesUnchanged ==
  /\ rendered' = rendered
  /\ \A r \in held(procs', timerQ') : heap'[r] = heap[r]

\* the input the handler called in this step reads: that of the render
\* whose handler it is, the current one unless a quick-add timer calls it
commandInput ==
  IF lastEvent'.via = "timer"
    THEN timerQ[CHOOSE j \in quickTimers(timerQ) :
                  \A k \in quickTimers(timerQ) : j <= k].c.inputValue
    ELSE inputValue

\* the step is a call of one of the three animated commands
commandStep == lastEvent'.name \in {"handleInsert", "handleSearch", "handleTraversal"}

\* handler invocation p, suspended on a sleep, runs to its end in this step
completes(p, op) ==
  /\ procs[p].pc # "idle"
  /\ procs[p].op = op
  /\ procs'[p].pc = "idle"

(***************************************************************************)
(* C1.  Busy gate, mutual exclusion: in every reachable state at most one  *)
(* animated operation is between its setIsAnimating(true) and its          *)
(* setIsAnimating(false).                                                  *)
(***************************************************************************)
C1_AtMostOneRunning == Cardinality(Running(procs)) <= 1

(***************************************************************************)
(* C2.  A command called while an animation is Running is a no-op: the     *)
(* call changes neither the rendered tree, nor the tree of any running     *)
(* animation, nor the log.                                                 *)
(***************************************************************************)
C2_CommandWhileRunningIsNoOp ==
  [][(Running(procs) # {} /\ commandStep)
       => /\ rendered' = rendered
          /\ \A p \in Running(procs) : heap'[procs[p].tree] = heap[procs[p].tree]
          /\ animationLog' = animationLog]_vars

(***************************************************************************)
(* C3.  Single writer: while an animation is Running, the tree the         *)
(* component holds for the renderer changes only in a step of a running    *)
(* animation.                                                              *)
(***************************************************************************)
C3_OnlyAnimationWritesWhileRunning ==
  [][(Running(procs) # {} /\ rendered' # rendered)
       => (lastEvent'.name = "wake" /\ lastEvent'.pid \in Running(procs))]_vars

(***************************************************************************)
(* C4.  BST order: after any sequence of inserts, at every node every key  *)
(* of the left subtree is smaller than the node's key and every key of the *)
(* right subtree is greater.                                               *)
(***************************************************************************)
C4_BSTOrder ==
  \A p \in Paths(root) :
    LET n == nodeAt(root, p)
    IN /\ \A k \in Keys(n.left) : k < n.value
       /\ \A k \in Keys(n.right) : k > n.value

C4_Witness ==
  /\ lastOp.op = "insert"
  /\ \E p \in Paths(root) :
       /\ Len(p) >= 1
       /\ nodeAt(root, p).left # null
       /\ nodeAt(root, p).right # null

(***************************************************************************)
(* C5.  The in-order traversal of a tree built by inserts yields exactly   *)
(* the keys inserted, each once, in strictly ascending order.              *)
(***************************************************************************)
C5_InOrderIsSorted ==
  lastOp.op = "inorder" =>
    LET s == valuesOf(root, lastOp.ret)
    IN /\ Len(s) = Cardinality(passed)
       /\ Range(s) = passed
       /\ \A i, j \in 1..Len(s) : i < j => s[i] < s[j]

C5_Witness ==
  /\ lastOp.op = "inorder"
  /\ Cardinality(passed) >= 5
  /\ root.left # null
  /\ root.right # null

(***************************************************************************)
(* C6.  Inserting a key already in the tree changes nothing: the object    *)
(* after the call, which is also what the call returns, is the object      *)
(* before it.                                                              *)
(***************************************************************************)
C6_DuplicateInsertChangesNothing ==
  (lastOp.op = "insert" /\ lastOp.arg \in Keys(lastOp.before))
    => (lastOp.ret = lastOp.before /\ root = lastOp.before)

C6_Witness ==
  /\ lastOp.op = "insert"
  /\ lastOp.arg \in Keys(lastOp.before)
  /\ \E p \in Paths(root) :
       /\ Len(p) >= 1
       /\ nodeAt(root, p).value = lastOp.arg
       /\ nodeAt(root, p).left # null

(***************************************************************************)
(* C7.  search(v) returns a node holding v exactly when v is the root key  *)
(* or was passed to insert, and null otherwise.                            *)
(***************************************************************************)
C7_SearchFindsExactlyTheInserted ==
  lastOp.op = "search" =>
    IF lastOp.arg \in passed
      THEN lastOp.ret # null /\ lastOp.ret.value = lastOp.arg
      ELSE lastOp.ret = null

C7_Witness ==
  /\ lastOp.op = "search"
  /\ lastOp.arg \in passed
  /\ lastOp.arg > root.value
  /\ lastOp.ret # root.right
  /\ \E v \in ProbeKeys \ passed : v > root.value

(***************************************************************************)
(* C8.  Each traversal calls the callback on every node exactly once, in   *)
(* its order: a node comes after its whole left subtree in in-order and    *)
(* post-order and before it in pre-order, before its whole right subtree   *)
(* in in-order and pre-order and after it in post-order, and a left        *)
(* subtree always comes before the right subtree beside it.  On the tree   *)
(* built from 50, 30, 70, 20, 40, 60, 80 the three orders are the ones the *)
(* specification lists.                                                    *)
(***************************************************************************)
C8_TraversalOrders ==
  lastOp.op \in TraversalTypes =>
    LET s == lastOp.ret
        type == lastOp.op
        all == Paths(root)
    IN /\ Len(s) = Cardinality(all)
       /\ Range(s) = all
       /\ \A p, q \in all :
            /\ IsPrefix(Append(p, "left"), q) =>
                 IF type = "preorder" THEN pos(s, p) < pos(s, q)
                                      ELSE pos(s, q) < pos(s, p)
            /\ IsPrefix(Append(p, "right"), q) =>
                 IF type = "postorder" THEN pos(s, q) < pos(s, p)
                                       ELSE pos(s, p) < pos(s, q)
       /\ \A p, l, r \in all :
            (IsPrefix(Append(p, "left"), l) /\ IsPrefix(Append(p, "right"), r))
              => pos(s, l) < pos(s, r)
       /\ Shape(root) = Shape(sampleTree) =>
            valuesOf(root, s) =
              IF type = "inorder" THEN <<20, 30, 40, 50, 60, 70, 80>>
              ELSE IF type = "preorder" THEN <<50, 30, 20, 40, 70, 60, 80>>
              ELSE <<20, 40, 30, 60, 80, 70, 50>>

C8_Witness ==
  /\ lastOp.op = "postorder"
  /\ Shape(root) = Shape(sampleTree)

(***************************************************************************)
(* C9.  The animated traversal visits the nodes the TreeNode traversal of  *)
(* the same order yields on the tree it runs on, and the completion line   *)
(* of the log lists their keys in that order.                              *)
(***************************************************************************)
C9_AnimatedTraversalIsEngineTraversal ==
  [][\A p \in Pids :
       completes(p, "traverse") =>
         LET t == heap[procs[p].tree]
             result == animationLog'[Len(animationLog')]
         IN /\ result.kind = "traversal result"
            /\ result.list = procs[p].visitedOrder
            /\ result.list = valuesOf(t, traversal(procs[p].type, t))]_vars

(***************************************************************************)
(* C10.  The animated path and the structural path of an insert do not     *)
(* diverge: when the walk of an insert of v ends, the step that ends it    *)
(* also makes the structural insert, and the tree it publishes is the tree *)
(* the walk ran on with one new leaf holding v, hung under the node the    *)
(* walk highlighted last, on the side the last log line names; when the    *)
(* walk ends on a node holding v, nothing is added.                        *)
(***************************************************************************)
C10_InsertLandsWhereWalkEnded ==
  [][\A p \in Pids :
       completes(p, "insert") =>
         LET pr == procs[p]
             t == heap[pr.tree]
             current == nodeAt(t, pr.current)
             last == animationLog'[Len(animationLog')]
         IN IF pr.value \in Keys(t)
              THEN /\ last.kind = "already exists in tree"
                   /\ Shape(rendered') = Shape(t)
              ELSE \E side \in {"left", "right"} :
                     /\ last.kind = (IF side = "left"
                                       THEN "Found insertion point: left child of"
                                       ELSE "Found insertion point: right child of")
                     /\ last.a = current.value
                     /\ child(current, side) = null
                     /\ Shape(rendered') =
                          Shape(t) \cup {<<Append(pr.current, side), pr.value>>}]_vars

\* an insert animation has just ended by hanging a key that is not in the
\* sample tree at depth three of the rendered tree
C10_Witness ==
  /\ lastEvent.name = "wake"
  /\ lastEvent.op = "insert"
  /\ lastEvent.done
  /\ \E p \in Paths(rendered) :
       /\ Len(p) = 3
       /\ nodeAt(rendered, p).value \notin Keys(sampleTree)

(***************************************************************************)
(* C11.  During an insert animation the tree keeps its shape and values at *)
(* every suspension point of the walk: as long as the insert of v stays    *)
(* suspended, no step changes the shape of the tree it walks, and the copy *)
(* its own steps publish has that shape.  The structural insert happens in *)
(* the step that ends the walk, once: that step adds v and nothing else.   *)
(***************************************************************************)
C11_InsertOnlyAfterWalk ==
  [][\A p \in Pids :
       (procs[p].pc # "idle" /\ procs[p].op = "insert") =>
         LET pr == procs[p]
             t == heap[pr.tree]
         IN IF procs'[p].pc # "idle"
              THEN /\ Shape(heap'[pr.tree]) = Shape(t)
                   /\ (lastEvent'.name = "wake" /\ lastEvent'.pid = p)
                        => Shape(rendered') = Shape(t)
              ELSE /\ Keys(rendered') = Keys(t) \cup {pr.value}
                   /\ Cardinality(Paths(rendered')) = Cardinality(Keys(rendered'))]_vars

(***************************************************************************)
(* C12.  Duplicate insert through the animation: while an insert of a      *)
(* value the tree already holds is running, the tree it runs on keeps its  *)
(* nodes, values and shape; the step that ends it logs "already exists",   *)
(* publishes a tree of that same shape (seven nodes when it is the sample  *)
(* tree) and sets isAnimating to false.                                    *)
(***************************************************************************)
C12_DuplicateInsertKeepsTree ==
  [][\A p \in Pids :
       (/\ procs[p].pc # "idle"
        /\ procs[p].op = "insert"
        /\ procs[p].value \in Keys(heap[procs[p].tree])) =>
         LET pr == procs[p]
             t == heap[pr.tree]
         IN IF procs'[p].pc # "idle"
              THEN Shape(heap'[pr.tree]) = Shape(t)
              ELSE /\ animationLog'[Len(animationLog')].kind = "already exists in tree"
                   /\ Shape(rendered') = Shape(t)
                   /\ Shape(t) = Shape(sampleTree) => Cardinality(Paths(rendered')) = 7
                   /\ isAnimating' = FALSE]_vars

(***************************************************************************)
(* C13.  The search animation follows the descent of TreeNode.search: the  *)
(* k-th node handleSearch highlights is the k-th node search(v) compares   *)
(* v with on the tree the animation runs on, the animation ends on the     *)
(* last of them, and it logs "Found" exactly when search returns a node.   *)
(* On the sample tree the searches for 60 and for 65 both visit 50, 70,    *)
(* 60; the first ends found, the second not found.                         *)
(***************************************************************************)
C13_SearchAnimationFollowsSearch ==
  [][\A p \in Pids :
       (procs[p].pc # "idle" /\ procs[p].op = "search") =>
         LET pr == procs[p]
             t == heap[pr.tree]
             calls == searchCalls(t, pr.value, <<>>)
             k == Len(pr.current) + 1
             last == animationLog'[Len(animationLog')]
         IN /\ k <= Len(calls)
            /\ calls[k] = pr.current
            /\ nodeAt(t, pr.current).isHighlighted
            /\ IF procs'[p] = procs[p] THEN TRUE
               ELSE IF procs'[p].pc # "idle"
                 THEN /\ k < Len(calls)
                      /\ procs'[p].current = calls[k + 1]
                 ELSE /\ k = Len(calls)
                      /\ last.kind = (IF search(t, pr.value) # null
                                        THEN "Found" ELSE "not found in tree")
                      /\ last.a = pr.value
                      /\ (Shape(t) = Shape(sampleTree) /\ pr.value \in {60, 65})
                           => /\ valuesOf(t, calls) = <<50, 70, 60>>
                              /\ last.kind = (IF pr.value = 60
                                                THEN "Found" ELSE "not found in tree")]_vars

\* the search for 65 on the sample tree has just ended: it went right from
\* 60 and found nothing there
C13_Witness ==
  /\ lastEvent.name = "wake"
  /\ lastEvent.op = "search"
  /\ lastEvent.done
  /\ Shape(rendered) = Shape(sampleTree)
  /\ Len(animationLog) >= 2
  /\ animationLog[Len(animationLog)] = Msg("not found in tree", 65, 0, <<>>)
  /\ animationLog[Len(animationLog) - 1] = Msg("> go right", 65, 60, <<>>)

(***************************************************************************)
(* C14.  Search result flag: when the search animation for v ends, the     *)
(* tree handed to the renderer has isSearchResult on exactly the nodes     *)
(* holding v (one node when v is in the tree, none when it is not), and    *)
(* the last log line is "Found" in the first case and "not found" in the   *)
(* second.                                                                 *)
(***************************************************************************)
C14_SearchResultFlagOnRenderedTree ==
  [][\A p \in Pids :
       completes(p, "search") =>
         LET v == procs[p].value
             last == animationLog'[Len(animationLog')]
         IN /\ { q \in Paths(rendered') : nodeAt(rendered', q).isSearchResult }
                 = { q \in Paths(rendered') : nodeAt(rendered', q).value = v }
            /\ last.kind = (IF v \in Keys(rendered')
                              THEN "Found" ELSE "not found in tree")]_vars

(***************************************************************************)
(* C15.  Visited trail of the descent animations: while an insert or a     *)
(* search animation is suspended, the node it stands on is highlighted and *)
(* every node of the descent path it has moved past is marked visited, in  *)
(* the tree the animation runs on.                                         *)
(***************************************************************************)
C15_DescentLeavesVisitedTrail ==
  \A p \in Pids :
    (procs[p].pc # "idle" /\ procs[p].op \in {"insert", "search"}) =>
      LET pr == procs[p]
          t == heap[pr.tree]
      IN /\ nodeAt(t, pr.current).isHighlighted
         /\ \A k \in 0..(Len(pr.current) - 1) :
              nodeAt(t, SubSeq(pr.current, 1, k)).isVisited

(***************************************************************************)
(* C16.  Nothing is left glowing: when an insert, search or traversal      *)
(* animation has ended, no node is highlighted, neither in the tree the    *)
(* animation ran on nor in the tree handed to the renderer; this includes  *)
(* the node a successful search stopped on.                                *)
(***************************************************************************)
C16_NothingLeftHighlighted ==
  (lastEvent.name = "wake" /\ lastEvent.done) =>
    /\ \A q \in Paths(lastEvent.obj) : ~nodeAt(lastEvent.obj, q).isHighlighted
    /\ \A q \in Paths(rendered) : ~nodeAt(rendered, q).isHighlighted

(***************************************************************************)
(* C17.  The animation log is bounded and ordered: it never holds more     *)
(* than 5 entries, and every step either leaves it alone, or empties it    *)
(* (clearTree), or appends the one or two messages it emits to the end and *)
(* keeps the last 5 of the result: the log is the last min(5, k) of the k  *)
(* messages emitted since the last clearTree, oldest dropped first.        *)
(***************************************************************************)
C17_LogIsLastFive ==
  [][/\ Len(animationLog') <= 5
     /\ \/ animationLog' = animationLog
        \/ lastEvent'.name = "clearTree" /\ animationLog' = <<>>
        \/ \E j \in 1..2 :
             /\ j <= Len(animationLog')
             /\ animationLog' =
                  lastOf(animationLog \o lastOf(animationLog', j), 5)]_vars

\* the log is full and its oldest entry is a comparison: the line that
\* opened that animation has been dropped
C17_Witness ==
  /\ Len(animationLog) = 5
  /\ animationLog[1].kind \in {"< go left", "> go right"}
  /\ animationLog[5].kind = "Starting traversal"

(***************************************************************************)
(* C18.  clearTree takes effect only when no animation is Running, and     *)
(* then it discards everything: the step leaves no tree and an empty log,  *)
(* and since nothing is running, no step and no log line of an earlier     *)
(* animation can follow it.                                                *)
(***************************************************************************)
C18_ClearTreeOnlyWhenIdle ==
  [][lastEvent'.name = "clearTree" =>
       /\ Running(procs) = {}
       /\ rendered' = null
       /\ animationLog' = <<>>]_vars

(***************************************************************************)
(* C19.  Clearing highlights sets the three flags to false on every node   *)
(* and leaves value, left, right, x and y of every node as they were:      *)
(* TreeNode.clearHighlights does so on every tree object the program       *)
(* holds, and the Clear Highlights command does so as seen on the tree     *)
(* handed to the renderer before and after it.                             *)
(***************************************************************************)
C19_ClearHighlightsKeepsTheRest ==
  [][/\ \A r \in Refs :
          heap[r] # null => clearedCopyOf(heap[r], clearHighlights(heap[r]))
     /\ (lastEvent'.name = "clearHighlights" /\ rendered # null)
          => clearedCopyOf(rendered, rendered')]_vars

(***************************************************************************)
(* C20.  Every animation runs to completion: when every timer fires, each  *)
(* insert, search or traversal that is Running eventually ends; the step   *)
(* that ends a handler (on found, not found, duplicate, insertion point,   *)
(* traversal end, or the insert into an empty tree, which never sleeps)    *)
(* sets isAnimating to false; and a suspended animation has taken no more  *)
(* steps than the tree it runs on has nodes.                               *)
(***************************************************************************)
C20_EveryAnimationCompletes ==
  /\ \A p \in Pids : (procs[p].pc # "idle") ~> (procs[p].pc = "idle")
  /\ [][/\ \A p \in Pids :
            (procs[p].pc # "idle" /\ procs'[p].pc = "idle") => isAnimating' = FALSE
        /\ (/\ lastEvent'.name = "handleInsert"
            /\ lastEvent'.ran
            /\ Running(procs') = Running(procs)) => isAnimating' = FALSE]_vars
  /\ [](\A p \in Pids :
          procs[p].pc # "idle" =>
            LET size == Cardinality(Paths(heap[procs[p].tree]))
            IN IF procs[p].op = "traverse"
                 THEN Len(procs[p].visitedOrder) <= size
                 ELSE Len(procs[p].current) + 1 <= size)

\* a traversal of the seven nodes of the sample tree has just ended, seven
\* sleeps after it began, and nothing is running
C20_Witness ==
  /\ lastEvent.name = "wake"
  /\ lastEvent.op = "traverse"
  /\ lastEvent.done
  /\ Running(procs) = {}
  /\ ~isAnimating
  /\ Len(animationLog[Len(animationLog)].list) = 7

(***************************************************************************)
(* C21.  Inserted keys persist: the step that ends an insert of v leaves v *)
(* in the tree handed to the renderer, and a key a command has inserted    *)
(* (one that is in that tree and is not a key of the sample tree) is still *)
(* in it after every step other than clearTree.                            *)
(***************************************************************************)
C21_InsertedKeysPersist ==
  [][/\ \A p \in Pids :
          completes(p, "insert") => procs[p].value \in Keys(rendered')
     /\ \A v \in Keys(rendered) \ Keys(sampleTree) :
          lastEvent'.name # "clearTree" => v \in Keys(rendered')]_vars

(***************************************************************************)
(* C22.  Snapshot fidelity: whenever an animation has taken a step and is  *)
(* suspended on its sleep, the tree handed to the renderer equals the tree *)
(* the animation is mutating: the same keys at the same places, the same   *)
(* x and y and the same three flags on every node.                         *)
(***************************************************************************)
C22_SnapshotIsTheAnimatedTree ==
  [][\A p \in Pids :
       (procs'[p].pc # "idle" /\ procs'[p] # procs[p])
         => rendered' = heap'[procs'[p].tree]]_vars

(***************************************************************************)
(* C23.  Layout before read: every tree handed to the renderer is laid     *)
(* out: calculatePositions, called with the arguments the component passes *)
(* for one of the window sizes, leaves every x and y of it as it is (the   *)
(* root is at (width / 2, 80)), and no node of it is at (0, 0).            *)
(***************************************************************************)
C23_RenderedTreeIsLaidOut ==
  rendered # null =>
    /\ \E w \in WindowWidths, h \in WindowHeights :
         rendered = positioned(rendered, updateDimensions(w, h))
    /\ \A q \in Paths(rendered) :
         ~(nodeAt(rendered, q).x = 0 /\ nodeAt(rendered, q).y = 0)

(***************************************************************************)
(* C24.  Layout non-overlap: after calculatePositions with arguments the   *)
(* component passes, no two distinct nodes of the tree have overlapping    *)
(* footprints: the centres of any two nodes are at least two node radii    *)
(* (60 pixels) apart.                                                      *)
(***************************************************************************)
C24_NoTwoFootprintsOverlap ==
  \A a \in ComponentArgs :
    laidOutWith(a) =>
      \A p, q \in Paths(root) :
        p # q => ~footprintsOverlap(nodeAt(root, p), nodeAt(root, q))

(***************************************************************************)
(* C25.  Layout left/right order at each parent: after calculatePositions, *)
(* whatever the shape of the tree and the arguments, every node that has a *)
(* left child has it at a smaller x, and every node that has a right child *)
(* has it at a greater x.                                                  *)
(***************************************************************************)
C25_ChildrenOnTheirSide ==
  lastOp.op = "calculatePositions" =>
    \A p \in Paths(root) :
      LET n == nodeAt(root, p)
      IN /\ n.left # null => n.left.x < n.x
         /\ n.right # null => n.x < n.right.x

\* a tree of seven nodes, its root and its left child with two children
\* each, has been laid out with a spacing below the floor of 60
C25_Witness ==
  /\ laidOutWith(<<400, 50, 40>>)
  /\ Cardinality(Paths(root)) = 7
  /\ <<"left", "left">> \in Paths(root)
  /\ <<"left", "right">> \in Paths(root)
  /\ <<"right">> \in Paths(root)

(***************************************************************************)
(* C26.  Layout keeps whole subtrees on their side: after                  *)
(* calculatePositions, every node of the left subtree of a node n has an x *)
(* smaller than n.x and every node of its right subtree an x greater than  *)
(* n.x, so that the nodes from left to right are in in-order key order.    *)
(***************************************************************************)
C26_SubtreesOnTheirSide ==
  lastOp.op = "calculatePositions" =>
    \A p, q \in Paths(root) :
      (IsPrefix(p, q) /\ p # q) =>
        IF q[Len(p) + 1] = "left"
          THEN nodeAt(root, q).x < nodeAt(root, p).x
          ELSE nodeAt(root, p).x < nodeAt(root, q).x

(***************************************************************************)
(* C27.  Layout vertical placement: after calculatePositions(x, y, s) the  *)
(* root is at (x, y) and every node at depth d has its y at y + d * 90: a  *)
(* child is exactly one level step of 90 pixels below its parent.          *)
(***************************************************************************)
C27_OneStepPerLevel ==
  lastOp.op = "calculatePositions" =>
    /\ root.x = lastOp.x
    /\ root.y = lastOp.y
    /\ \A p \in Paths(root) :
         nodeAt(root, p).y = lastOp.y + Len(p) * 90 * Scale

\* a tree with nodes on both sides of the root and a node at depth 4 has
\* been laid out as the component lays it out
C27_Witness ==
  /\ \E a \in ComponentArgs : laidOutWith(a)
  /\ root.left # null
  /\ root.right # null
  /\ \E p \in Paths(root) : Len(p) = 4

(***************************************************************************)
(* C28.  Layout is a function of shape and arguments: the coordinates      *)
(* calculatePositions has given to a tree, whatever keys, flags and        *)
(* earlier coordinates its nodes carried, are those it gives to a tree of  *)
(* the same shape made of fresh nodes with one key, and calling it again   *)
(* with the same arguments changes nothing.                                *)
(***************************************************************************)
C28_LayoutDependsOnShapeOnly ==
  lastOp.op = "calculatePositions" =>
    LET again == calculatePositions(root, lastOp.x, lastOp.y, lastOp.horizontalSpacing)
        fresh == calculatePositions(skeleton(root), lastOp.x, lastOp.y,
                                    lastOp.horizontalSpacing)
    IN /\ again = root
       /\ Paths(fresh) = Paths(root)
       /\ \A p \in Paths(root) :
            /\ nodeAt(fresh, p).x = nodeAt(root, p).x
            /\ nodeAt(fresh, p).y = nodeAt(root, p).y

\* a tree of seven different keys whose root carries flags has been laid
\* out with the arguments the component passes for the wide window
C28_Witness ==
  /\ laidOutWith(<<600, 80, 150>>)
  /\ root.isHighlighted /\ root.isVisited
  /\ Cardinality(Keys(root)) = 7
  /\ <<"left", "right", "left">> \in Paths(root)

(***************************************************************************)
(* C29.  Search or traversal on an empty tree is ignored: a call of        *)
(* handleSearch or handleTraversal while there is no tree leaves the tree  *)
(* absent, adds nothing to the log, leaves isAnimating as it is and starts *)
(* no animation.                                                           *)
(***************************************************************************)
C29_NoTreeNoSearchNoTraversal ==
  [][(lastEvent'.name \in {"handleSearch", "handleTraversal"} /\ tree = NoRef)
       => /\ tree' = NoRef
          /\ treesUnchanged
          /\ animationLog' = animationLog
          /\ isAnimating' = isAnimating
          /\ procs' = procs
          /\ timerQ' = timerQ]_vars

\* handleSearch has been called with a number in the input while nothing is
\* running and there is no tree
C29_Witness ==
  /\ lastEvent.name = "handleSearch"
  /\ ~lastEvent.ran
  /\ tree = NoRef
  /\ inputValue = "60"
  /\ ~isAnimating
  /\ Running(procs) = {}

(***************************************************************************)
(* C30.  Invalid input is ignored: a call of handleInsert or handleSearch  *)
(* that reads an input parseInt makes no number of (the empty string,      *)
(* which is also what the number field holds for a text that is no number) *)
(* changes neither the trees with their flags, nor the log, nor            *)
(* isAnimating, nor the input, and starts no animation.                    *)
(***************************************************************************)
C30_InvalidInputIsIgnored ==
  [][(/\ lastEvent'.name \in {"handleInsert", "handleSearch"}
      /\ isNaN(parseInt(commandInput)))
       => /\ tree' = tree
          /\ treesUnchanged
          /\ animationLog' = animationLog
          /\ isAnimating' = isAnimating
          /\ inputValue' = inputValue
          /\ procs' = procs]_vars

\* Enter has been pressed in the empty input field while the component
\* shows a tree, a log and no animation
C30_Witness ==
  /\ lastEvent.name = "handleInsert"
  /\ lastEvent.via = "enter"
  /\ ~lastEvent.ran
  /\ inputValue = ""
  /\ tree # NoRef
  /\ animationLog # <<>>
  /\ ~isAnimating
  /\ Running(procs) = {}

(***************************************************************************)
(* C31.  Insert into an empty tree: when there is no tree, a call of       *)
(* handleInsert that reads a number v makes the tree one root node holding *)
(* v, without children and laid out for the window (at (width / 2, 80)),   *)
(* starts no animation and leaves isAnimating false.                       *)
(***************************************************************************)
C31_InsertIntoEmptyTreeMakesRoot ==
  [][(/\ lastEvent'.name = "handleInsert"
      /\ tree = NoRef
      /\ ~isNaN(parseInt(commandInput)))
       => /\ rendered' # null
          /\ rendered'.value = parseInt(commandInput).num
          /\ rendered'.left = null /\ rendered'.right = null
          /\ \E w \in WindowWidths, h \in WindowHeights :
               rendered' = positioned(rendered', updateDimensions(w, h))
          /\ procs' = procs
          /\ ~isAnimating']_vars

(***************************************************************************)
(* C32.  getAllNodes returns every node of the tree exactly once: the      *)
(* array has as many entries as the tree has nodes and every node is among *)
(* them; the order is the one it returns for a tree of the same shape made *)
(* of fresh nodes, whatever keys, flags and coordinates the nodes carry;   *)
(* and the call leaves the tree as it was.                                 *)
(***************************************************************************)
C32_GetAllNodesListsEachNodeOnce ==
  [][(lastOp'.op = "getAllNodes" /\ lastOp' # lastOp) =>
       /\ Len(lastOp'.ret) = Cardinality(Paths(root))
       /\ Range(lastOp'.ret) = Paths(root)
       /\ lastOp'.ret = getAllNodes(skeleton(root), <<>>)
       /\ root' = root]_vars

\* getAllNodes has been called on a laid-out tree of seven nodes whose root
\* has two subtrees and carries flags
C32_Witness ==
  /\ lastOp.op = "getAllNodes"
  /\ Len(lastOp.ret) = 7
  /\ root.left # null /\ root.right # null
  /\ <<"right", "left">> \in Paths(root)
  /\ root.isHighlighted
  /\ root.y # 0

(***************************************************************************)
(* C33.  Every animation starts from clean flags: when an insert, search   *)
(* or traversal animation reaches its first sleep, the tree it runs on has *)
(* isHighlighted on the node it has just highlighted and on no other node, *)
(* isSearchResult on no node, and isVisited on no node but the one a       *)
(* traversal has just visited; the tree handed to the renderer carries no  *)
(* flag on any other node either.                                          *)
(***************************************************************************)
C33_AnimationStartsFromCleanFlags ==
  [][\A p \in Pids :
       (procs[p].pc = "idle" /\ procs'[p].pc # "idle") =>
         LET pr == procs'[p]
             first == IF pr.op = "traverse" THEN pr.stack[Len(pr.stack)].node
                      ELSE pr.current
             clean(t) ==
               \A q \in Paths(t) :
                 LET n == nodeAt(t, q)
                 IN /\ ~n.isSearchResult
                    /\ n.isHighlighted => q = first
                    /\ n.isVisited => (q = first /\ pr.op = "traverse")
         IN /\ nodeAt(heap'[pr.tree], first).isHighlighted
            /\ clean(heap'[pr.tree])
            /\ clean(rendered')]_vars

\* an insert started by a quick-add timer has reached its first sleep on
\* the tree object a traversal is running on
C33_Witness ==
  /\ lastEvent.name = "handleInsert"
  /\ lastEvent.via = "timer"
  /\ lastEvent.ran
  /\ \E p, p2 \in Pids :
       /\ procs[p].pc # "idle" /\ procs[p].op = "insert" /\ procs[p].current = <<>>
       /\ procs[p2].pc # "idle" /\ procs[p2].op = "traverse"
       /\ procs[p2].tree = procs[p].tree

(***************************************************************************)
(* C34.  Flags and shape have separate writers.  A call of insert leaves   *)
(* every node that was in the tree in its place with its three flags as    *)
(* they were, and a node it adds has all three flags false; a call of      *)
(* calculatePositions leaves the shape, the keys and the three flags of    *)
(* every node as they were (only x and y may differ); a call of search, of *)
(* a traversal or of getAllNodes leaves the whole tree as it was.          *)
(***************************************************************************)
C34_ReadersAndLayoutLeaveFlags ==
  [][lastOp' # lastOp =>
       LET sameFlags(n, m) ==
             /\ m.isHighlighted = n.isHighlighted
             /\ m.isVisited = n.isVisited
             /\ m.isSearchResult = n.isSearchResult
       IN /\ lastOp'.op = "insert" =>
               /\ Paths(root) \subseteq Paths(root')
               /\ \A p \in Paths(root) : sameFlags(nodeAt(root, p), nodeAt(root', p))
               /\ \A p \in Paths(root') \ Paths(root) :
                    sameFlags(TreeNode(0), nodeAt(root', p))
          /\ lastOp'.op = "calculatePositions" =>
               /\ Paths(root') = Paths(root)
               /\ \A p \in Paths(root) :
                    /\ sameFlags(nodeAt(root, p), nodeAt(root', p))
                    /\ nodeAt(root', p).value = nodeAt(root, p).value
          /\ lastOp'.op \in {"search", "getAllNodes"} \cup TraversalTypes =>
               root' = root]_vars

\* a key has been inserted into a laid-out tree whose root carries flags:
\* the tree has seven nodes, the new one not laid out yet
C34_Witness ==
  /\ lastOp.op = "insert"
  /\ root.isHighlighted /\ root.isVisited
  /\ root.y # 0
  /\ Cardinality(Paths(root)) = 7
  /\ \E p \in Paths(root) : nodeAt(root, p).y = 0 /\ nodeAt(root, p).value = lastOp.arg

(***************************************************************************)
(* C35.  Inserting a key that is not in the tree adds exactly one node:    *)
(* the tree returned has one node more, the new node is a leaf holding the *)
(* key, and every node that was in the tree is still in its place (under   *)
(* the same parent, on the same side) with its key; the root is the same   *)
(* node.                                                                   *)
(***************************************************************************)
C35_InsertAddsOneLeaf ==
  (lastOp.op = "insert" /\ lastOp.arg \notin Keys(lastOp.before)) =>
    LET before == lastOp.before
        added == Paths(lastOp.ret) \ Paths(before)
    IN /\ root = lastOp.ret
       /\ Paths(before) \subseteq Paths(root)
       /\ Cardinality(Paths(root)) = Cardinality(Paths(before)) + 1
       /\ \A q \in added :
            /\ nodeAt(root, q).value = lastOp.arg
            /\ nodeAt(root, q).left = null
            /\ nodeAt(root, q).right = null
       /\ \A p \in Paths(before) : nodeAt(root, p).value = nodeAt(before, p).value

\* a seventh key has been hung at depth two or more under a node that
\* already had a child on its other side
C35_Witness ==
  /\ lastOp.op = "insert"
  /\ lastOp.arg \notin Keys(lastOp.before)
  /\ Cardinality(Paths(root)) = 7
  /\ \E q \in Paths(root) \ Paths(lastOp.before) :
       /\ Len(q) >= 2
       /\ LET parent == nodeAt(root, SubSeq(q, 1, Len(q) - 1))
          IN parent.left # null /\ parent.right # null

(***************************************************************************)
(* C36.  One highlighted node at a suspension point: whenever an animation *)
(* is waiting on its sleep, the tree it runs on has isHighlighted on       *)
(* exactly one node, the one the animation is comparing or visiting.       *)
(***************************************************************************)
C36_OneHighlightedWhileSuspended ==
  \A p \in Pids :
    procs[p].pc # "idle" =>
      LET pr == procs[p]
          t == heap[pr.tree]
          at == IF pr.op = "traverse" THEN pr.stack[Len(pr.stack)].node ELSE pr.current
      IN { q \in Paths(t) : nodeAt(t, q).isHighlighted } = {at}

(***************************************************************************)
(* C37.  Quick-add inserts the clicked number: when the timer of the one   *)
(* pending quick-add click fires right after the click on the button n,    *)
(* the handleInsert it calls runs and inserts n: it makes n the root when  *)
(* there is no tree and starts the insert animation of n otherwise.        *)
(***************************************************************************)
C37_QuickAddInsertsClickedNumber ==
  [][(/\ lastEvent.name = "quickAdd"
      /\ Cardinality(quickTimers(timerQ)) = 1
      /\ lastEvent'.name = "handleInsert"
      /\ lastEvent'.via = "timer")
       => /\ lastEvent'.ran
          /\ IF procs' = procs
               THEN rendered' # null /\ rendered'.value = lastEvent.num
               ELSE \E p \in Pids :
                      /\ procs[p].pc = "idle"
                      /\ procs'[p].pc # "idle"
                      /\ procs'[p].op = "insert"
                      /\ procs'[p].value = lastEvent.num]_vars

====
